---- MODULE Spec2Model ----
(***************************************************************************)
(* Model of the orchestration core of gnuma_distilbert:                    *)
(*   src/src/resources.py  - the REST handlers (producers of the queue,    *)
(*                           writers of the interrupt flag, delete)        *)
(*   src/src/training.py   - the worker thread and the four job bodies     *)
(* The helpers of src/training_help.py (InterruptState, QueueElement,      *)
(* delete_model, remove_checkpoints, InterruptCallback) are not part of    *)
(* the sources at hand; they are modelled from the specification.          *)
(*                                                                         *)
(* Granularity: every handler is one atomic step; the worker thread is     *)
(* modelled statement by statement wherever it touches the store, the      *)
(* file system or the interrupt flag, so that handlers interleave with it. *)
(* An exception that leaves a job body is not caught anywhere in           *)
(* training_thread, so it ends the thread: pc = "dead".                    *)
(* A request body carries only the required fields (no user-supplied       *)
(* "status" key), and the engine call itself is assumed to return.         *)
(***************************************************************************)
EXTENDS Naturals, Integers, Sequences, FiniteSets, TLC

VARIABLES
    db,          \* SqliteDict './distilBERT.sqlite': model_id -> record
    weights,     \* set of model ids with a file models/<id>.pth
    ckpts,       \* model_id -> set of checkpoint labels; DOMAIN = existing directories
    q,           \* queue.Queue of QueueElement
    stop,        \* InterruptState: 0 run, 1 pause, 2 abort
    pc,          \* position of the worker thread
    err,         \* exception that ended the worker thread ("none" while alive)
    cur,         \* (model_id, op_type) of the job being executed
    model_info,  \* local variable model_info of the job body
    cp_list,     \* local variable cp_list of continue_training_model
    step,        \* global step of the engine in trainer.train()
    touched,     \* history: Base.delete served for cur.model_id since the job was dequeued
    deleted,     \* history: model ids for which Base.delete has completed
    written,     \* history: Pause.patch / Interrupt.delete wrote the flag since the last reset
    resp,        \* response of the handler served last
    nextId,      \* number of model ids generated so far
    enqueued,    \* history: every QueueElement ever put, in put order
    dispatched   \* history: every QueueElement the worker got, in get order

vars == <<db, weights, ckpts, q, stop, pc, err, cur, model_info, cp_list, step,
          touched, deleted, written, resp, nextId, enqueued, dispatched>>

\* ------------------------------------------------------------------ bounds
MaxModels == 2      \* model ids that Train.post may generate
MaxJobs   == 3      \* QueueElements put over a run
MaxSteps  == 2      \* steps of one trainer.train() call
SaveSteps == 5      \* engine steps per checkpoint label unit (checkpoint-5, checkpoint-10, ..)

ModelIds == 1..MaxModels

\* ------------------------------------------------------------ data shapes
NoStatus == "<no status key>"

NoInfo == [status |-> "-", num_labels |-> FALSE, defaults |-> FALSE]

NoJob == [model_id |-> 0, op_type |-> "none", n |-> 0]

NoResp == [op |-> "none", model_id |-> 0, code |-> 0, msg |-> "none"]

\* ------------------------------------------------ the key-value store (dict)
HasKey(d, k) == k \in DOMAIN d

DictPut(d, k, v) == [x \in (DOMAIN d) \cup {k} |-> IF x = k THEN v ELSE d[x]]

DictDel(d, k) == [x \in (DOMAIN d) \ {k} |-> d[x]]

\* ----------------------------------------------------------- the job queue
QueueElement(model_id, op_type, n) == [model_id |-> model_id, op_type |-> op_type, n |-> n]

QueueGetLast(que) == que[Len(que)]

QueueGet(que) == Head(que)

QueuePut(que, e) == Append(que, e)


\* ------------------------------------------------------ checkpoint listing
\* os.listdir returns names "checkpoint-<label>"; list.sort compares them as
\* strings, i.e. the decimal digits of the labels from the left.
RECURSIVE Digits(_)
Digits(n) == IF n < 10 THEN <<n>> ELSE Append(Digits(n \div 10), n % 10)

RECURSIVE StrLess(_, _)
StrLess(a, b) ==
    IF a = <<>> THEN b # <<>>
    ELSE IF b = <<>> THEN FALSE
    ELSE IF Head(a) # Head(b) THEN Head(a) < Head(b)
    ELSE StrLess(Tail(a), Tail(b))

NameLess(x, y) == StrLess(Digits(x), Digits(y))

RECURSIVE SortReverse(_)
SortReverse(S) ==
    IF S = {} THEN <<>>
    ELSE LET top == CHOOSE x \in S : \A y \in S \ {x} : NameLess(y, x)
         IN  <<top>> \o SortReverse(S \ {top})

CkptLabel(k) == k * SaveSteps

\* -------------------------------- helpers of training_help.py (from the spec)
\* delete_model: removes the record, the weight file and the checkpoint
\* directory; silent when there is nothing to delete.
delete_model_db(d, m) == DictDel(d, m)

delete_model_weights(w, m) == w \ {m}

delete_model_ckpts(c, m) == DictDel(c, m)

\* remove_checkpoints: removes the checkpoint directory of the model.
remove_checkpoints(c, m) == DictDel(c, m)

\* ------------------------------------------------------------------- Init
Init ==
    /\ db = << >>
    /\ weights = {}
    /\ ckpts = << >>
    /\ q = << >>
    /\ stop = 0
    /\ pc = "w_poll"
    /\ err = "none"
    /\ cur = NoJob
    /\ model_info = NoInfo
    /\ cp_list = << >>
    /\ step = 0
    /\ touched = FALSE
    /\ deleted = {}
    /\ written = FALSE
    /\ resp = NoResp
    /\ nextId = 0
    /\ enqueued = << >>
    /\ dispatched = << >>

workerVars == <<pc, err, cur, model_info, cp_list, step>>

\* a handler that puts a QueueElement
Put(model_id, op_type) ==
    /\ Len(enqueued) < MaxJobs
    /\ LET e == QueueElement(model_id, op_type, Len(enqueued) + 1)
       IN  /\ q' = QueuePut(q, e)
           /\ enqueued' = Append(enqueued, e)

Reply(op, model_id, code, msg) ==
    resp' = [op |-> op, model_id |-> model_id, code |-> code, msg |-> msg]

\* ------------------------------------------------------------ the handlers
\* Train.post: validation, fresh id, db[model_id] = req, put
NewRecord == [status |-> NoStatus, num_labels |-> FALSE, defaults |-> FALSE]

TrainPost ==
    \E valid \in BOOLEAN :
        IF ~valid
        THEN /\ Reply("train", 0, 400, "bad request")
             /\ UNCHANGED <<db, weights, ckpts, q, stop, workerVars, touched, deleted, written,
                            nextId, enqueued, dispatched>>
        ELSE /\ nextId < MaxModels
             /\ nextId' = nextId + 1
             /\ db' = DictPut(db, nextId + 1, NewRecord)
             /\ Put(nextId + 1, "train")
             /\ Reply("train", nextId + 1, 200, "train")
             /\ UNCHANGED <<weights, ckpts, stop, workerVars, touched, deleted, written, dispatched>>

\* Base.get
BaseGet(m) ==
    /\ IF ~HasKey(db, m) THEN Reply("get", m, 400, "unknown id")
                         ELSE Reply("get", m, 200, "info")
    /\ UNCHANGED <<db, weights, ckpts, q, stop, workerVars, touched, deleted, written,
                   nextId, enqueued, dispatched>>

\* Base.delete
BaseDeleteSilent(m) ==
    /\ db' = delete_model_db(db, m)
    /\ weights' = delete_model_weights(weights, m)
    /\ ckpts' = delete_model_ckpts(ckpts, m)
    /\ touched' = (touched \/ cur.model_id = m)
    /\ deleted' = deleted \cup {m}
    /\ Reply("delete", m, 200, "deleted")
    /\ UNCHANGED <<q, stop, workerVars, written, nextId, enqueued, dispatched>>

BaseDelete(m) ==
    IF ~HasKey(db, m)
    THEN /\ Reply("delete", m, 400, "unknown id")
         /\ UNCHANGED <<db, weights, ckpts, q, stop, workerVars, touched, deleted, written,
                        nextId, enqueued, dispatched>>
    ELSE /\ db' = delete_model_db(db, m)
         /\ weights' = delete_model_weights(weights, m)
         /\ ckpts' = delete_model_ckpts(ckpts, m)
         /\ touched' = (touched \/ cur.model_id = m)
         /\ deleted' = deleted \cup {m}
         /\ Reply("delete", m, 200, "deleted")
         /\ UNCHANGED <<q, stop, workerVars, written, nextId, enqueued, dispatched>>

\* Continue.post / Predict.get / Evaluate.get: the same code up to the
\* operation type and the status required.
Required(op_type) == IF op_type = "continue" THEN "interrupted" ELSE "trained"

StatusGuarded(m, op_type) ==
    IF ~HasKey(db, m)
    THEN /\ Reply(op_type, m, 400, "unknown id")
         /\ UNCHANGED <<q, enqueued>>
    ELSE IF db[m].status = NoStatus
    THEN \* db[model_id]['status'] on a record without that key
         /\ Reply(op_type, m, 500, "KeyError")
         /\ UNCHANGED <<q, enqueued>>
    ELSE IF db[m].status # Required(op_type)
    THEN \* the argument [model_id][status] names an undefined variable
         /\ Reply(op_type, m, 500, "NameError")
         /\ UNCHANGED <<q, enqueued>>
    ELSE /\ Put(m, op_type)
         /\ Reply(op_type, m, 200, op_type)

ContinuePost(m) ==
    /\ StatusGuarded(m, "continue")
    /\ UNCHANGED <<db, weights, ckpts, stop, workerVars, touched, deleted, written, nextId, dispatched>>

PredictGet(m) ==
    /\ StatusGuarded(m, "predict")
    /\ UNCHANGED <<db, weights, ckpts, stop, workerVars, touched, deleted, written, nextId, dispatched>>

EvaluateGet(m) ==
    /\ StatusGuarded(m, "evaluate")
    /\ UNCHANGED <<db, weights, ckpts, stop, workerVars, touched, deleted, written, nextId, dispatched>>

\* Pause.patch / Interrupt.delete: set_state, then a return statement that
\* names the undefined variable model_id
PausePatch ==
    /\ stop' = 1
    /\ written' = TRUE
    /\ Reply("pause", 0, 500, "NameError")
    /\ UNCHANGED <<db, weights, ckpts, q, workerVars, touched, deleted, nextId, enqueued, dispatched>>

InterruptDelete ==
    /\ stop' = 2
    /\ written' = TRUE
    /\ Reply("interrupt", 0, 500, "NameError")
    /\ UNCHANGED <<db, weights, ckpts, q, workerVars, touched, deleted, nextId, enqueued, dispatched>>

\* List.get reads db[model_id]['status'] of every record
ListGet ==
    /\ IF \E m \in DOMAIN db : db[m].status = NoStatus
       THEN Reply("list", 0, 500, "KeyError")
       ELSE Reply("list", 0, 200, "list")
    /\ UNCHANGED <<db, weights, ckpts, q, stop, workerVars, touched, deleted, written,
                   nextId, enqueued, dispatched>>

\* ------------------------------------------------------ the worker thread
handlerVars == <<resp, nextId, enqueued, deleted>>

\* an exception leaves the job body and training_thread: the thread ends
Raise(e) ==
    /\ pc' = "dead"
    /\ err' = e
    /\ model_info' = NoInfo
    /\ cp_list' = << >>
    /\ step' = 0
    /\ UNCHANGED <<cur, touched, written>>

\* the job body returns to the while loop of training_thread
Return ==
    /\ pc' = "w_poll"
    /\ cur' = NoJob
    /\ model_info' = NoInfo
    /\ cp_list' = << >>
    /\ step' = 0
    /\ touched' = FALSE
    /\ UNCHANGED <<err, written>>

Goto(l) == pc' = l /\ UNCHANGED <<err, cur, touched, written>>

\* training_thread, q.empty() is false: stop.set_state(0)
\* (while the queue is empty the thread sleeps and changes nothing)
set_state_kept == stop

set_state_reset == 0

WorkerReset ==
    /\ pc = "w_poll"
    /\ q # << >>
    /\ stop' = set_state_reset
    /\ written' = FALSE
    /\ pc' = "w_get"
    /\ UNCHANGED <<err, cur, touched>>
    /\ UNCHANGED <<db, weights, ckpts, q, model_info, cp_list, step,
                   dispatched, handlerVars>>

\* training_thread: q.get().get_info() and the dispatch on op_type
Dispatch(op_type) ==
    CASE op_type = "train"    -> "t_read_info"
      [] op_type = "continue" -> "c_listdir"
      [] op_type = "evaluate" -> "e_check"
      [] op_type = "predict"  -> "p_check"
      [] OTHER                -> "w_poll"

WorkerGet ==
    /\ pc = "w_get"
    /\ LET e == QueueGet(q)
       IN  /\ q' = Tail(q)
           /\ dispatched' = Append(dispatched, e)
           /\ cur' = IF Dispatch(e.op_type) = "w_poll" THEN NoJob ELSE e
           /\ pc' = Dispatch(e.op_type)
    /\ touched' = FALSE
    /\ UNCHANGED <<db, weights, ckpts, stop, err, model_info, cp_list, step, written,
                   handlerVars>>

\* ------------------------------------------------------- train_new_model
\* line 46-53: model_info = SqliteDict(..)[model_id]; merge the defaults
MergeDefaults(info) == [info EXCEPT !.defaults = TRUE]

TrainReadInfo ==
    /\ pc = "t_read_info"
    /\ IF ~HasKey(db, cur.model_id)
       THEN Raise("KeyError")
       ELSE /\ model_info' = MergeDefaults(db[cur.model_id])
            /\ Goto("t_save_info")
            /\ UNCHANGED <<cp_list, step>>
    /\ UNCHANGED <<db, weights, ckpts, q, stop, dispatched, handlerVars>>

\* line 56-58: db[model_id] = model_info; commit
TrainSaveInfo ==
    /\ pc = "t_save_info"
    /\ db' = DictPut(db, cur.model_id, model_info)
    /\ Goto("t_setup")
    /\ UNCHANGED <<weights, ckpts, q, stop, model_info, cp_list, step,
                   dispatched, handlerVars>>

\* line 63-81: training arguments, data, model, Trainer(..); the engine
\* creates its output directory checkpoints/<model_id> when constructed
MakeDir(c, m) == IF HasKey(c, m) THEN c ELSE DictPut(c, m, {})

TrainSetup ==
    /\ pc = "t_setup"
    /\ ckpts' = MakeDir(ckpts, cur.model_id)
    /\ Goto("t_read_status")
    /\ UNCHANGED <<db, weights, q, stop, model_info, cp_list, step,
                   dispatched, handlerVars>>

\* line 84-85: model_info = db[model_id]
ReadRecord(next) ==
    IF ~HasKey(db, cur.model_id)
    THEN Raise("KeyError")
    ELSE /\ model_info' = db[cur.model_id]
         /\ Goto(next)
         /\ UNCHANGED <<cp_list, step>>

\* line 86-89 / 107-109 / 120-122: model_info['status'] = ..; db[model_id] = model_info
SetTraining(info) == [info EXCEPT !.status = "training", !.num_labels = TRUE]

SetTrainedForgot(info) == info

SetTrained(info) == [info EXCEPT !.status = "trained"]

SetInterrupted(info) == [info EXCEPT !.status = "interrupted"]

TrainReadStatus ==
    /\ pc = "t_read_status"
    /\ ReadRecord("t_write_status")
    /\ UNCHANGED <<db, weights, ckpts, q, stop, dispatched, handlerVars>>

TrainWriteStatus ==
    /\ pc = "t_write_status"
    /\ db' = DictPut(db, cur.model_id, SetTraining(model_info))
    /\ Goto("t_train")
    /\ UNCHANGED <<weights, ckpts, q, stop, model_info, cp_list, step,
                   dispatched, handlerVars>>

\* line 93: trainer.train(), one engine step: the engine may write the
\* checkpoint of that step; InterruptCallback then polls the flag and stops
\* the training when it is not 0
SaveCheckpoint(c, m, k) ==
    DictPut(c, m, (IF HasKey(c, m) THEN c[m] ELSE {}) \cup {CkptLabel(k)})

CallbackStops(s) == s # 0

EngineStep ==
    /\ pc = "t_train"
    /\ step < MaxSteps
    /\ step' = step + 1
    /\ \E save \in BOOLEAN :
          ckpts' = IF save THEN SaveCheckpoint(ckpts, cur.model_id, step + 1) ELSE ckpts
    /\ IF CallbackStops(stop) \/ step + 1 = MaxSteps
       THEN Goto("t_read1")
       ELSE Goto("t_train")
    /\ UNCHANGED <<db, weights, q, stop, model_info, cp_list,
                   dispatched, handlerVars>>

\* line 97: if (stop.get_state() == 0)
TrainRead1 ==
    /\ pc = "t_read1"
    /\ IF stop = 0 THEN Goto("t_save_weights") ELSE Goto("t_read2")
    /\ UNCHANGED <<db, weights, ckpts, q, stop, model_info, cp_list, step,
                   dispatched, handlerVars>>

\* line 116: elif (stop.get_state() == 1)
TrainRead2 ==
    /\ pc = "t_read2"
    /\ IF stop = 1 THEN Goto("t_read_int") ELSE Goto("t_delete")
    /\ UNCHANGED <<db, weights, ckpts, q, stop, model_info, cp_list, step,
                   dispatched, handlerVars>>

\* line 99: torch.save(model.state_dict(), models/<model_id>.pth)
TrainSaveWeights ==
    /\ pc = "t_save_weights"
    /\ weights' = weights \cup {cur.model_id}
    /\ Goto("t_rm_ckpt")
    /\ UNCHANGED <<db, ckpts, q, stop, model_info, cp_list, step,
                   dispatched, handlerVars>>

\* line 102: remove_checkpoints(model_id)
TrainRemoveCheckpoints ==
    /\ pc = "t_rm_ckpt"
    /\ ckpts' = remove_checkpoints(ckpts, cur.model_id)
    /\ Goto("t_read_trained")
    /\ UNCHANGED <<db, weights, q, stop, model_info, cp_list, step,
                   dispatched, handlerVars>>

\* line 105-106
TrainReadTrained ==
    /\ pc = "t_read_trained"
    /\ ReadRecord("t_write_trained")
    /\ UNCHANGED <<db, weights, ckpts, q, stop, dispatched, handlerVars>>

\* line 107-109
TrainWriteTrained ==
    /\ pc = "t_write_trained"
    /\ db' = DictPut(db, cur.model_id, SetTrained(model_info))
    /\ Goto("t_evaluate")
    /\ UNCHANGED <<weights, ckpts, q, stop, model_info, cp_list, step,
                   dispatched, handlerVars>>

\* line 111-113: trainer.evaluate(), then the function returns
TrainEvaluate ==
    /\ pc = "t_evaluate"
    /\ Return
    /\ UNCHANGED <<db, weights, ckpts, q, stop, dispatched, handlerVars>>

\* line 118-119
TrainReadInterrupted ==
    /\ pc = "t_read_int"
    /\ ReadRecord("t_write_int")
    /\ UNCHANGED <<db, weights, ckpts, q, stop, dispatched, handlerVars>>

\* line 120-124
TrainWriteInterrupted ==
    /\ pc = "t_write_int"
    /\ db' = DictPut(db, cur.model_id, SetInterrupted(model_info))
    /\ Return
    /\ UNCHANGED <<weights, ckpts, q, stop, dispatched, handlerVars>>

\* line 127-130: delete_model(model_id)
TrainDelete ==
    /\ pc = "t_delete"
    /\ db' = delete_model_db(db, cur.model_id)
    /\ weights' = delete_model_weights(weights, cur.model_id)
    /\ ckpts' = delete_model_ckpts(ckpts, cur.model_id)
    /\ Return
    /\ UNCHANGED <<q, stop, dispatched, handlerVars>>

\* ------------------------------------------------ continue_training_model
\* line 135-137: cp_list = os.listdir(checkpoints/<model_id>); cp_list.sort(reverse = True)
ContinueListDir ==
    /\ pc = "c_listdir"
    /\ IF ~HasKey(ckpts, cur.model_id)
       THEN Raise("FileNotFoundError")
       ELSE /\ cp_list' = SortReverse(ckpts[cur.model_id])
            /\ Goto("c_check")
            /\ UNCHANGED <<model_info, step>>
    /\ UNCHANGED <<db, weights, ckpts, q, stop, dispatched, handlerVars>>

\* line 141-145: no checkpoint: logging.error and return
ContinueCheck ==
    /\ pc = "c_check"
    /\ IF Len(cp_list) = 0
       THEN Return
       ELSE /\ Goto("c_setup")
            /\ UNCHANGED <<model_info, cp_list, step>>
    /\ UNCHANGED <<db, weights, ckpts, q, stop, dispatched, handlerVars>>

\* line 147-162: data, model, Trainer(model = model, args = training_args, ..):
\* training_args is assigned nowhere in continue_training_model, the call
\* raises NameError; lines 164-212 are never reached
ContinueSetup ==
    /\ pc = "c_setup"
    /\ Raise("NameError")
    /\ UNCHANGED <<db, weights, ckpts, q, stop, dispatched, handlerVars>>

\* --------------------------------------------------------- evaluate_model
\* line 217-218: a missing weight file is logged, the function goes on
EvaluateCheck ==
    /\ pc = "e_check"
    /\ Goto("e_load")
    /\ UNCHANGED <<db, weights, ckpts, q, stop, model_info, cp_list, step,
                   dispatched, handlerVars>>

\* line 231 / 257: model.load_state_dict(torch.load(models/<model_id>.pth))
LoadWeights(next) ==
    IF cur.model_id \notin weights
    THEN Raise("FileNotFoundError")
    ELSE /\ Goto(next)
         /\ UNCHANGED <<model_info, cp_list, step>>

EvaluateLoad ==
    /\ pc = "e_load"
    /\ LoadWeights("e_eval")
    /\ UNCHANGED <<db, weights, ckpts, q, stop, dispatched, handlerVars>>

\* line 235-245: trainer.evaluate(..), then the function returns
EvaluateRunMarks ==
    /\ pc = "e_eval"
    /\ db' = IF HasKey(db, cur.model_id)
             THEN DictPut(db, cur.model_id, [db[cur.model_id] EXCEPT !.status = "training"])
             ELSE db
    /\ Return
    /\ UNCHANGED <<weights, ckpts, q, stop, dispatched, handlerVars>>

EvaluateRun ==
    /\ pc = "e_eval"
    /\ Return
    /\ UNCHANGED <<db, weights, ckpts, q, stop, dispatched, handlerVars>>

\* ----------------------------------------------------- predict_with_model
\* line 250-251
PredictCheck ==
    /\ pc = "p_check"
    /\ Goto("p_model")
    /\ UNCHANGED <<db, weights, ckpts, q, stop, model_info, cp_list, step,
                   dispatched, handlerVars>>

\* line 254: SqliteDict(..)[model_id]['num_labels']
PredictModel ==
    /\ pc = "p_model"
    /\ IF ~HasKey(db, cur.model_id) \/ ~db[cur.model_id].num_labels
       THEN Raise("KeyError")
       ELSE /\ Goto("p_load")
            /\ UNCHANGED <<model_info, cp_list, step>>
    /\ UNCHANGED <<db, weights, ckpts, q, stop, dispatched, handlerVars>>

\* line 257-258, then the function returns
PredictLoad ==
    /\ pc = "p_load"
    /\ IF cur.model_id \notin weights
       THEN Raise("FileNotFoundError")
       ELSE Return
    /\ UNCHANGED <<db, weights, ckpts, q, stop, dispatched, handlerVars>>

\* ------------------------------------------------------------------- Next
Handler ==
    \/ TrainPost
    \/ ListGet
    \/ PausePatch
    \/ InterruptDelete
    \/ \E m \in ModelIds : BaseGet(m)
    \/ \E m \in ModelIds : BaseDelete(m)
    \/ \E m \in ModelIds : ContinuePost(m)
    \/ \E m \in ModelIds : PredictGet(m)
    \/ \E m \in ModelIds : EvaluateGet(m)

Worker ==
    \/ WorkerReset
    \/ WorkerGet
    \/ TrainReadInfo
    \/ TrainSaveInfo
    \/ TrainSetup
    \/ TrainReadStatus
    \/ TrainWriteStatus
    \/ EngineStep
    \/ TrainRead1
    \/ TrainRead2
    \/ TrainSaveWeights
    \/ TrainRemoveCheckpoints
    \/ TrainReadTrained
    \/ TrainWriteTrained
    \/ TrainEvaluate
    \/ TrainReadInterrupted
    \/ TrainWriteInterrupted
    \/ TrainDelete
    \/ ContinueListDir
    \/ ContinueCheck
    \/ ContinueSetup
    \/ EvaluateCheck
    \/ EvaluateLoad
    \/ EvaluateRun
    \/ PredictCheck
    \/ PredictModel
    \/ PredictLoad

Next == Handler \/ Worker

Spec == Init /\ [][Next]_vars

TypeOK ==
    /\ DOMAIN db \subseteq ModelIds
    /\ weights \subseteq ModelIds
    /\ DOMAIN ckpts \subseteq ModelIds
    /\ stop \in {0, 1, 2}
    /\ nextId \in 0..MaxModels
    /\ step \in 0..MaxSteps
    /\ Len(enqueued) <= MaxJobs

\* =================================================================== claims
Job == cur.model_id

Nothing(d, w, c, m) == ~HasKey(d, m) /\ m \notin w /\ ~HasKey(c, m)

\* C1: the worker gets the QueueElements in exactly the order in which the
\* handlers put them: what was dispatched so far, followed by what still
\* waits, is the sequence of puts; no element is dispatched twice.
C1_FifoDispatch ==
    /\ enqueued = dispatched \o q
    /\ \A i, j \in 1..Len(dispatched) : i # j => dispatched[i] # dispatched[j]

C1_Witness ==
    /\ Len(dispatched) >= 2
    /\ dispatched[1].op_type # dispatched[2].op_type
    /\ q # << >>

\* C2: a job's failure never stops the worker loop: no exception raised in
\* a job body ends training_thread.
C2_WorkerSurvives == pc # "dead"

\* C3 (as amended): when the completion read of a train job is 0 and no
\* explicit delete of the model is served while the job runs, the weight
\* file is written while the status is still "training", and the job
\* returns with status "trained" and the weight file present.
C3_TrainedAfterRead0 ==
    ~touched =>
        /\ pc \in {"t_rm_ckpt", "t_read_trained", "t_write_trained"} =>
               /\ Job \in weights
               /\ HasKey(db, Job) /\ db[Job].status = "training"
        /\ pc = "t_evaluate" =>
               /\ Job \in weights
               /\ HasKey(db, Job) /\ db[Job].status = "trained"

C3_Witness ==
    /\ pc = "t_evaluate" /\ ~touched
    /\ Job \in weights /\ HasKey(db, Job) /\ db[Job].status = "trained"

\* C3 (as stated): a train job whose completion read is 0 returns with
\* status "trained" and the weight file present.
C3_Original ==
    pc = "t_evaluate" =>
        /\ Job \in weights
        /\ HasKey(db, Job) /\ db[Job].status = "trained"

\* C4: a train job that completes on the pause branch (and whose model was
\* not deleted meanwhile) returns with status "interrupted", without a
\* weight file, and with at least one checkpoint.
C4_PausedKeepsCheckpoint ==
    [][(pc = "t_write_int" /\ pc' = "w_poll" /\ ~touched) =>
          /\ HasKey(db', Job) /\ db'[Job].status = "interrupted"
          /\ Job \notin weights'
          /\ HasKey(ckpts', Job) /\ ckpts'[Job] # {}]_vars

\* C5: a train or continue job that ends after the abort signal leaves
\* neither record nor weight file nor checkpoints of its model.
C5_AbortLeavesNothing ==
    [][(\/ pc = "t_delete" /\ pc' = "w_poll"
        \/ pc = "c_setup" /\ pc' # pc /\ stop = 2) =>
          Nothing(db', weights', ckpts', Job)]_vars

\* C6: a continue job that found status "interrupted" and at least one
\* checkpoint, with no signal and no delete arriving, does not end before
\* the model is "trained" with its weight file.
C6_ContinueEndsTrained ==
    [][(/\ cur.op_type = "continue" /\ Len(cp_list) > 0
        /\ HasKey(db, Job) /\ db[Job].status = "interrupted"
        /\ stop = 0 /\ ~touched
        /\ pc \notin {"w_poll", "dead"} /\ pc' \in {"w_poll", "dead"}) =>
          /\ HasKey(db', Job) /\ db'[Job].status = "trained"
          /\ Job \in weights']_vars

\* C7: every stored record has a status; it is "created" as long as the
\* train job of the model waits in the queue.
C7_CreatedStatus ==
    \A m \in DOMAIN db :
        /\ db[m].status \in {"created", "training", "trained", "interrupted"}
        /\ (\E i \in 1..Len(q) : q[i].model_id = m /\ q[i].op_type = "train")
               => db[m].status = "created"

\* C8: a continue / predict / evaluate request for a model in the wrong
\* status is answered with the client error naming the status, puts
\* nothing and changes neither registry nor interrupt state.
GuardedOps == {"continue", "predict", "evaluate"}

C8_WrongStatusRejected ==
    [][\A m \in ModelIds, op \in GuardedOps :
          (/\ HasKey(db, m) /\ db[m].status # Required(op)
           /\ resp' # resp /\ resp'.op = op /\ resp'.model_id = m) =>
             /\ resp'.code = 400 /\ resp'.msg = "wrong status"
             /\ q' = q /\ db' = db /\ stop' = stop]_vars

\* C9: a continue job for a model with status "interrupted" and no
\* checkpoints is dropped: the listing and the test change nothing and the
\* worker returns to its loop.
NoCheckpoints(c, m) == ~HasKey(c, m) \/ c[m] = {}

C9_NoCheckpointNoOp ==
    [][(/\ pc \in {"c_listdir", "c_check"} /\ pc' # pc
        /\ HasKey(db, Job) /\ db[Job].status = "interrupted"
        /\ NoCheckpoints(ckpts, Job)
        /\ pc = "c_check" => cp_list = << >>) =>
          /\ pc' = (IF pc = "c_listdir" THEN "c_check" ELSE "w_poll")
          /\ db' = db /\ weights' = weights /\ ckpts' = ckpts]_vars

\* C10 (as stated): a delete of an id that is not in the registry answers
\* with success and leaves the registry unchanged.
C10_Original ==
    [][\A m \in ModelIds :
          (~HasKey(db, m) /\ resp' # resp /\ resp'.op = "delete" /\ resp'.model_id = m) =>
             (resp'.code = 200 /\ db' = db)]_vars

\* C10 (as amended): a delete of an id that is not in the registry is
\* rejected with the client error "unknown id" and changes nothing; a
\* delete of a registered id succeeds and leaves no record, weight file or
\* checkpoint of it, so that a repeated delete is rejected.
C10_DeleteUnknownRejected ==
    [][\A m \in ModelIds :
          (resp' # resp /\ resp'.op = "delete" /\ resp'.model_id = m) =>
             IF HasKey(db, m)
             THEN resp'.code = 200 /\ Nothing(db', weights', ckpts', m)
             ELSE /\ resp'.code = 400 /\ resp'.msg = "unknown id"
                  /\ db' = db /\ weights' = weights /\ ckpts' = ckpts /\ q' = q]_vars

C10_Witness ==
    /\ resp.op = "delete" /\ resp.code = 400
    /\ resp.model_id <= nextId

\* C11: once an explicit delete of a model id has completed, no record and
\* no weight file of that id exists in any later state.
C11_DeletedStaysDeleted ==
    \A m \in deleted : ~HasKey(db, m) /\ m \notin weights

\* C12: every record with status "trained" has its weight file.
C12_TrainedHasWeights ==
    \A m \in DOMAIN db : db[m].status = "trained" => m \in weights

\* C13: every change of a record's status is an allowed transition: created
\* to training, training to trained or interrupted, interrupted to
\* training, anything to deleted; a record appears only when Train.post
\* creates it, so a deleted record never gets a status again. (The record
\* that Train.post stores without a status key counts as "created" here.)
StatusOf(rec) == IF rec.status = NoStatus THEN "created" ELSE rec.status

AllowedTransitions ==
    {<<"created", "training">>, <<"training", "trained">>,
     <<"training", "interrupted">>, <<"interrupted", "training">>}

C13_StatusTransitions ==
    [][\A m \in ModelIds :
          /\ (HasKey(db, m) /\ HasKey(db', m) /\ StatusOf(db'[m]) # StatusOf(db[m])) =>
                 <<StatusOf(db[m]), StatusOf(db'[m])>> \in AllowedTransitions
          /\ (~HasKey(db, m) /\ HasKey(db', m)) =>
                 (m = nextId + 1 /\ nextId' = m /\ StatusOf(db'[m]) = "created")]_vars

\* C14: an evaluate or predict job that finds no weight file for its model
\* fails at the check, before any attempt to load, and leaves the registry
\* unchanged: the worker is back in its loop.
C14_MissingArtifactFailsJob ==
    [][(pc \in {"e_check", "p_check"} /\ pc' # pc /\ Job \notin weights) =>
          (pc' = "w_poll" /\ db' = db)]_vars

\* C15: no step of an evaluate or predict job changes the registry: the
\* set of records and every field of every record are the same after the
\* step as before it.
EvalPredictSteps == {"e_check", "e_load", "e_eval", "p_check", "p_model", "p_load"}

C15_EvalPredictFrame ==
    [][(pc \in EvalPredictSteps /\ pc' # pc) => db' = db]_vars

C15_Witness ==
    /\ pc = "e_eval"
    /\ HasKey(db, Job) /\ db[Job].status = "trained" /\ Job \in weights

\* C16: the flag is reset to 0 for every job before the job is got from
\* the queue and dispatched: from the reset on, the flag is different from
\* 0 only if a pause or abort was written after that reset, so the pause
\* and abort branches are taken only on a signal written after the reset.
C16_ResetBeforeDispatch ==
    /\ pc \notin {"w_poll", "dead"} => (stop # 0 => written)
    /\ pc \in {"t_read2", "t_read_int", "t_write_int", "t_delete"} => written

\* a train job ends "trained" although the request served last, a pause or
\* abort, was written before the reset of that job
C16_Witness ==
    /\ pc = "t_evaluate" /\ ~written /\ ~touched
    /\ resp.op \in {"pause", "interrupt"}
    /\ HasKey(db, Job) /\ db[Job].status = "trained"

\* C17: the terminal outcome of a train or continue job during which pause
\* and abort were written is the one of the value the flag holds when the
\* worker decides: the second read finds 1 or 2 and branches accordingly,
\* the pause branch ends with status "interrupted" and the checkpoints
\* kept, the abort branch with nothing left; the same for a continue job
\* that found checkpoints, whenever it ends.
C17_LastSignalDecides ==
    [][/\ (pc = "t_read2" /\ pc' # pc) =>
             (stop \in {1, 2} /\ pc' = (IF stop = 1 THEN "t_read_int" ELSE "t_delete"))
       /\ (pc = "t_write_int" /\ pc' = "w_poll" /\ ~touched) =>
             (HasKey(db', Job) /\ db'[Job].status = "interrupted" /\ ckpts' = ckpts)
       /\ (pc = "t_delete" /\ pc' = "w_poll") => Nothing(db', weights', ckpts', Job)
       /\ (/\ cur.op_type = "continue" /\ Len(cp_list) > 0 /\ written /\ ~touched
           /\ pc \notin {"w_poll", "dead"} /\ pc' \in {"w_poll", "dead"}) =>
             IF stop = 1
             THEN HasKey(db', Job) /\ db'[Job].status = "interrupted" /\ ckpts' = ckpts
             ELSE Nothing(db', weights', ckpts', Job)]_vars

\* C18: every QueueElement put is eventually got by the worker; hence no
\* element waits in the queue once the worker thread has ended.
C18_NoJobStranded == ~(pc = "dead" /\ q # << >>)

\* C19: a pause and an abort request always answer with the success
\* acknowledgement naming the operation.
C19_SignalAcknowledged ==
    resp.op \in {"pause", "interrupt"} => (resp.code = 200 /\ resp.msg = resp.op)

\* C20: when the worker starts a job, the status the handler required at
\* request time still holds: "interrupted" for continue, "trained" for
\* evaluate and predict.
C20_PreconditionAtStart ==
    [][(pc = "w_get" /\ pc' \in {"c_listdir", "e_check", "p_check"}) =>
          (HasKey(db', cur'.model_id)
             /\ db'[cur'.model_id].status = Required(cur'.op_type))]_vars

====
